---- MODULE Spec2Model ----
(***************************************************************************)
(* Model of Backend/Server/server.py: the per-connection relay between a   *)
(* websocket client and the Gemini Live session.                           *)
(*                                                                         *)
(*   receive_from_gemini  (Outbound Relay)  upstream responses -> client   *)
(*   send_to_gemini       (Inbound Relay)   client messages -> upstream    *)
(*   convert_pcm_to_mp3 / save_pcm_as_mp3 / create_wav_header  (codec)     *)
(*                                                                         *)
(* A PCM byte string is modelled as the sequence of the fragments it was   *)
(* concatenated from, each fragment a record [id, len]: the id stands for  *)
(* the fragment's bytes, len for their number.  Concatenation of byte      *)
(* strings is concatenation of these sequences and len() is BufLen.        *)
(* A fragment too long for the model's integers carries, in a third field  *)
(* gib, its whole multiples of 2^30 bytes, and in len the bytes beyond.    *)
(***************************************************************************)
EXTENDS Integers, Sequences, FiniteSets, TLC

\* ---------------------------------------------------------------- bounds
MaxEvents == 2      \* upstream responses delivered to receive_from_gemini
MaxFrags  == 2      \* parts carried by all upstream responses together
MaxParts  == 2      \* parts carried by one upstream response
MaxMsgs   == 2      \* client messages read by send_to_gemini
MaxChunks == 2      \* media chunks in one client message
MaxMedia  == 3      \* media chunks carried by all client messages together
MaxTraffic == 3     \* responses and client messages of one whole session
MaxCalls == 2       \* calls of the codec applied to drawn inputs

\* ------------------------------------------------------ program constants
RELAY_MIN_BYTES == 4800     \* line 256: threshold applied at turn close
CODEC_MIN_BYTES == 1000     \* lines 425, 479: threshold inside the codec
MIN_SEGMENT_MS  == 100      \* lines 440, 493: minimum decoded duration
MIN_MP3_BYTES   == 500      \* lines 499, 526: minimum encoded size
OUTPUT_RATE     == 24000    \* lines 260, 263, 272: upstream audio rate
INPUT_RATE      == 16000    \* line 105: client audio rate
SAMPLE_WIDTH    == 2        \* lines 434, 487: bytes per sample
WAV_CHANNELS    == 1        \* line 543 default, lines 433, 486
WAV_BITS        == 16       \* line 543 default

\* sizes (in bytes) of the audio fragments the environment may deliver
AudioSizes == {200, 2400, 4800}

\* ------------------------------------------------------------ byte strings
RECURSIVE BufLen(_)
BufLen(buf) == IF buf = <<>> THEN 0 ELSE Head(buf).len + BufLen(Tail(buf))

\* the whole multiples of 2^30 bytes in a byte string (none in a fragment
\* without the field)
GIB == 2^30
RECURSIVE BufGiB(_)
BufGiB(buf) ==
    IF buf = <<>> THEN 0
    ELSE (IF "gib" \in DOMAIN Head(buf) THEN Head(buf).gib ELSE 0)
         + BufGiB(Tail(buf))

\* Python's None, as a value comparable with the records below
NoResult == [kind |-> "none"]

\* base64.b64encode(x).decode('utf-8'): a text whose decoding is x
B64Encode(bytes) == [kind |-> "b64", of |-> bytes]

\* ------------------------------------------------------------------ codec
\* What the encoder does during one handler is the environment's choice:
\* whether pydub was importable (_HAVE_PYDUB), whether the encoder (pydub
\* export or the ffmpeg subprocess) raises / exits non-zero in
\* save_pcm_as_mp3 and in convert_pcm_to_mp3, and the size in bytes of the
\* MP3 that convert_pcm_to_mp3 reads back.
Mp3Sizes == {300, 600}
CodecEnvs == [pydub : BOOLEAN, save_fails : BOOLEAN, conv_fails : BOOLEAN,
              mp3_len : Mp3Sizes]

\* len(AudioSegment) in milliseconds: round(1000 * frames / rate)
DurationMs(pcm, rate) ==
    (2 * 1000 * (BufLen(pcm) \div SAMPLE_WIDTH) + rate) \div (2 * rate)

\* the MP3 container the encoder produces for a PCM buffer
Mp3Of(pcm, rate) == [kind |-> "mp3", pcm |-> pcm, rate |-> rate]

\* how a run of a codec function ends: with a return value or with an
\* exception on its way out, and whether the encoder (pydub export or the
\* ffmpeg subprocess) was started on the way
Returned(value, encoder_ran) ==
    [raised |-> FALSE, result |-> value, encoder_ran |-> encoder_ran]
Raised(encoder_ran) ==
    [raised |-> TRUE, result |-> NoResult, encoder_ran |-> encoder_ran]

\* lines 478-536, the body of the try block. A failing encoder raises out
\* of export() on the pydub path (line 497) and shows as a non-zero return
\* code on the ffmpeg path (lines 521-524; a missing ffmpeg binary raises
\* out of subprocess.run instead and ends like the pydub failure).
ConvertTry(pcm_data, sample_rate, env) ==
    IF pcm_data = <<>> \/ BufLen(pcm_data) < CODEC_MIN_BYTES
    THEN Returned(NoResult, FALSE)
    ELSE IF env.pydub
    THEN IF DurationMs(pcm_data, sample_rate) < MIN_SEGMENT_MS
         THEN Returned(NoResult, FALSE)
         ELSE IF env.conv_fails THEN Raised(TRUE)
         ELSE IF env.mp3_len < MIN_MP3_BYTES THEN Returned(NoResult, TRUE)
         ELSE Returned(B64Encode(Mp3Of(pcm_data, sample_rate)), TRUE)
    ELSE IF env.conv_fails THEN Returned(NoResult, TRUE)
    ELSE IF env.mp3_len < MIN_MP3_BYTES THEN Returned(NoResult, TRUE)
    ELSE Returned(B64Encode(Mp3Of(pcm_data, sample_rate)), TRUE)

\* mutant of ConvertExcept: no handler around the body, the exception
\* leaves the function
ConvertExcept_Reraises(run) == run

\* lines 538-540: except Exception: print, return None
ConvertExcept(run) ==
    IF run.raised THEN Returned(NoResult, run.encoder_ran) ELSE run

convert_pcm_to_mp3(pcm_data, sample_rate, env) ==
    ConvertExcept(ConvertTry(pcm_data, sample_rate, env)).result

\* save_pcm_as_mp3: the file it leaves under `filename`, or NoResult when it
\* writes nothing
save_pcm_as_mp3(pcm_data, sample_rate, env) ==
    IF pcm_data = <<>> \/ BufLen(pcm_data) < CODEC_MIN_BYTES THEN NoResult
    ELSE IF env.pydub /\ DurationMs(pcm_data, sample_rate) < MIN_SEGMENT_MS
         THEN NoResult
    ELSE IF env.save_fails THEN NoResult
    ELSE Mp3Of(pcm_data, sample_rate)

\* lines 554, 569: int.to_bytes(4, 'little') raises OverflowError for a
\* value of 2^32 or more; the larger of the two values written this way is
\* file_size = 36 + len(pcm_data), and 2^32 is 4 * GIB
FitsU32(pcm_data) ==
    \/ BufGiB(pcm_data) < 3
    \/ BufGiB(pcm_data) = 3 /\ 36 + BufLen(pcm_data) < GIB

create_wav_header(pcm_data, sample_rate, channels, bits_per_sample) ==
    [kind        |-> "wav",
     riff        |-> "RIFF",
     file_size   |-> 36 + BufLen(pcm_data),
     wave        |-> "WAVE",
     fmt_size    |-> 16,
     format      |-> 1,
     channels    |-> channels,
     sample_rate |-> sample_rate,
     byte_rate   |-> (sample_rate * channels * bits_per_sample) \div 8,
     block_align |-> (channels * bits_per_sample) \div 8,
     bits        |-> bits_per_sample,
     data_size   |-> BufLen(pcm_data),
     data        |-> pcm_data]

\* a call of one of the two codec functions and what it returned
SaveCall(pcm_data, sample_rate, result) ==
    [fn |-> "save_pcm_as_mp3", pcm |-> pcm_data, rate |-> sample_rate,
     result |-> result]
ConvertCall(pcm_data, sample_rate, result) ==
    [fn |-> "convert_pcm_to_mp3", pcm |-> pcm_data, rate |-> sample_rate,
     result |-> result]

\* ------------------------------------------------ state of one session
VARIABLES
    \* receive_from_gemini
    audio_start_sent,             \* line 176
    current_text_response,        \* line 177: texts appended, in order
    accumulated_audio_this_turn,  \* line 182: PCM bytes of the open turn
    recvPc,                       \* "running", or why the relay returned
    toClient,                     \* messages client_websocket.send accepted
    clientOpen,                   \* the client connection still accepts sends
    events,                       \* responses session.receive() has yielded
    nextId,                       \* identity of the next upstream part
    files,                        \* what save_pcm_as_mp3 left on disk
    \* send_to_gemini
    sendPc,                       \* "running", or "done" once it returned
    toUpstream,                   \* packets send_realtime_input accepted
    upstreamOpen,                 \* the upstream stream still accepts sends
    clientMsgs,                   \* messages read from client_websocket
    nextChunk,                    \* identity of the next client chunk
    \* codec
    codecCalls,                   \* calls of the codec functions, in order
    \* gemini_session_handler
    sessPc,                       \* where the handler is
    session,                      \* the upstream session of line 82
    upstreamConfig,               \* the config given to live.connect
    handshake,                    \* the first client message (line 48)
    sessionError                  \* the exception caught at line 341

outVars == <<audio_start_sent, current_text_response,
             accumulated_audio_this_turn, recvPc, toClient, clientOpen,
             events, nextId, files>>

inVars == <<sendPc, toUpstream, upstreamOpen, clientMsgs, nextChunk>>

sessVars == <<sessPc, session, upstreamConfig, handshake, sessionError>>

vars == <<outVars, inVars, codecCalls, sessVars>>

\* ----------------------------------------------- client-facing messages
AudioStartMsg     == [audio_start |-> TRUE]
TextMsg(t)        == [text |-> t]
AudioMsg(b64)     == [audio |-> b64]
AudioWavMsg(b64)  == [audio |-> b64, format |-> "wav"]
TurnCompleteMsg   == [turn_complete |-> TRUE]

IsAudioStart(m)   == "audio_start" \in DOMAIN m
IsText(m)         == "text" \in DOMAIN m
IsAudio(m)        == "audio" \in DOMAIN m
IsTurnComplete(m) == "turn_complete" \in DOMAIN m

\* --------------------------------------------------- upstream responses
\* A part carries text, or inline_data (audio), or neither (any other kind
\* of part); the three are alternatives of one field of the upstream part.
PartShapes ==
    {[kind |-> "text", len |-> 0], [kind |-> "other", len |-> 0]}
    \cup {[kind |-> "audio", len |-> n] : n \in AudioSizes}

PartsFrom(shapes, id) ==
    [i \in 1..Len(shapes) |->
        [kind |-> shapes[i].kind, len |-> shapes[i].len, id |-> id + i - 1]]

Min(a, b) == IF a < b THEN a ELSE b

\* the responses the stream may yield next: without server_content, or with
\* a model_turn of some parts (none: model_turn absent) and a turn_complete
\* flag
Responses(id) ==
    {[server_content |-> FALSE, parts |-> <<>>, turn_complete |-> FALSE]}
    \cup
    {[server_content |-> TRUE, parts |-> PartsFrom(sh, id),
      turn_complete |-> tc] :
        sh \in UNION {[1..n -> PartShapes] :
                        n \in 0..Min(MaxParts, MaxFrags - (id - 1))},
        tc \in BOOLEAN}

\* ---------------------------------------------------- receive_from_gemini
\* The handler's locals while it runs: the relay's state, what it has sent,
\* how many more sends the client connection accepts (budget), and whether a
\* send has raised.  After a raise nothing more of the handler runs.
ClientSend(st, msg) ==
    IF st.raised THEN st
    ELSE IF st.budget = 0 THEN [st EXCEPT !.raised = TRUE]
    ELSE [st EXCEPT !.sent = Append(@, msg), !.budget = @ - 1]

\* an exception other than a failed send is raised in the handler
Fail(st) == [st EXCEPT !.raised = TRUE, !.failed = TRUE]

HasInlineData(part) == part.kind = "audio"

\* part.inline_data.data
Fragment(part) ==
    IF "gib" \in DOMAIN part
    THEN [id |-> part.id, len |-> part.len, gib |-> part.gib]
    ELSE [id |-> part.id, len |-> part.len]

\* mutant of OnPart: every audio fragment is also forwarded on its own
OnPart_ForwardsAudio(st, part) ==
    IF st.raised THEN st
    ELSE IF part.kind = "text"
         THEN ClientSend([st EXCEPT !.text = Append(@, part.id)],
                         TextMsg(part.id))
    ELSE IF part.kind = "audio"
         THEN ClientSend(
                [st EXCEPT !.acc = @ \o <<[id |-> part.id, len |-> part.len]>>],
                AudioMsg(B64Encode(Mp3Of(<<[id |-> part.id, len |-> part.len]>>,
                                         OUTPUT_RATE))))
    ELSE st

\* lines 228-242: one part
OnPart(st, part) ==
    IF st.raised THEN st
    ELSE IF part.kind = "text"
         THEN ClientSend([st EXCEPT !.text = Append(@, part.id)],
                         TextMsg(part.id))
    ELSE IF part.kind = "audio"
         THEN [st EXCEPT !.acc = @ \o <<Fragment(part)>>]
    ELSE st

RECURSIVE OnParts(_, _)
OnParts(st, parts) ==
    IF parts = <<>> THEN st
    ELSE OnParts(OnPart(st, Head(parts)), Tail(parts))

\* mutant of SignalAudioStart: the flag is not consulted
SignalAudioStart_NoFlag(st, parts) ==
    IF SelectSeq(parts, HasInlineData) # <<>>
    THEN LET s == ClientSend(st, AudioStartMsg)
         IN  IF s.raised THEN s ELSE [s EXCEPT !.started = TRUE]
    ELSE st

\* lines 219-226: the audio_start signal
SignalAudioStart(st, parts) ==
    IF ~st.started /\ SelectSeq(parts, HasInlineData) # <<>>
    THEN LET s == ClientSend(st, AudioStartMsg)
         IN  IF s.raised THEN s ELSE [s EXCEPT !.started = TRUE]
    ELSE st

\* lines 207-242
OnModelTurn(st, parts) ==
    IF parts = <<>> THEN st
    ELSE OnParts(SignalAudioStart(st, parts), parts)

\* mutant of DrainAudio: any non-empty buffer is converted
DrainAudio_NoThreshold(st, env) ==
    LET acc == st.acc IN
    IF st.raised THEN st
    ELSE IF acc # <<>>
    THEN LET mp3_audio_base64 == convert_pcm_to_mp3(acc, OUTPUT_RATE, env)
         IN  IF mp3_audio_base64 # NoResult
             THEN ClientSend(st, AudioMsg(mp3_audio_base64))
             ELSE ClientSend(st, AudioWavMsg(B64Encode(
                     create_wav_header(acc, OUTPUT_RATE, WAV_CHANNELS,
                                       WAV_BITS))))
    ELSE st

\* mutant of DrainAudio: no fallback container when the conversion fails
DrainAudio_NoFallback(st, env) ==
    LET acc == st.acc IN
    IF st.raised THEN st
    ELSE IF acc # <<>> /\ BufLen(acc) >= RELAY_MIN_BYTES
    THEN LET mp3_audio_base64 == convert_pcm_to_mp3(acc, OUTPUT_RATE, env)
         IN  IF mp3_audio_base64 # NoResult
             THEN ClientSend(st, AudioMsg(mp3_audio_base64))
             ELSE st
    ELSE st

\* mutant of DrainAudio: the fallback container is sent without its format
\* marker
DrainAudio_UnmarkedFallback(st, env) ==
    LET acc == st.acc IN
    IF st.raised THEN st
    ELSE IF acc # <<>> /\ BufLen(acc) >= RELAY_MIN_BYTES
    THEN LET saved == save_pcm_as_mp3(acc, OUTPUT_RATE, env)
             s0 == IF saved = NoResult THEN st
                   ELSE [st EXCEPT !.files["gemini_complete_response.mp3"]
                                       = saved]
             mp3_audio_base64 == convert_pcm_to_mp3(acc, OUTPUT_RATE, env)
             s1 == [s0 EXCEPT !.calls = @ \o
                       <<SaveCall(acc, OUTPUT_RATE, saved),
                         ConvertCall(acc, OUTPUT_RATE, mp3_audio_base64)>>]
         IN  IF mp3_audio_base64 # NoResult
             THEN ClientSend(s1, AudioMsg(mp3_audio_base64))
             ELSE ClientSend(s1, AudioMsg(B64Encode(
                     create_wav_header(acc, OUTPUT_RATE, WAV_CHANNELS,
                                       WAV_BITS))))
    ELSE st

\* lines 256-277: convert and send the turn's audio
DrainAudio(st, env) ==
    LET acc == st.acc IN
    IF st.raised THEN st
    ELSE IF acc # <<>> /\ BufLen(acc) >= RELAY_MIN_BYTES
    THEN LET saved == save_pcm_as_mp3(acc, OUTPUT_RATE, env)
             s0 == IF saved = NoResult THEN st
                   ELSE [st EXCEPT !.files["gemini_complete_response.mp3"]
                                       = saved]
             mp3_audio_base64 == convert_pcm_to_mp3(acc, OUTPUT_RATE, env)
             s1 == [s0 EXCEPT !.calls = @ \o
                       <<SaveCall(acc, OUTPUT_RATE, saved),
                         ConvertCall(acc, OUTPUT_RATE, mp3_audio_base64)>>]
         IN  IF mp3_audio_base64 # NoResult
             THEN ClientSend(s1, AudioMsg(mp3_audio_base64))
             ELSE IF ~FitsU32(acc) THEN Fail(s1)
             ELSE ClientSend(s1, AudioWavMsg(B64Encode(
                     create_wav_header(acc, OUTPUT_RATE, WAV_CHANNELS,
                                       WAV_BITS))))
    ELSE st

\* mutant of ResetTurn: the audio buffer survives the turn
ResetTurn_KeepsBuffer(st) ==
    IF st.raised THEN st
    ELSE [st EXCEPT !.started = FALSE, !.text = <<>>]

\* lines 283-306: reset for the next turn
ResetTurn(st) ==
    IF st.raised THEN st
    ELSE [st EXCEPT !.started = FALSE, !.text = <<>>, !.acc = <<>>]

\* mutant of OnTurnComplete: the turn_complete signal is not sent
OnTurnComplete_NoSignal(st, env) ==
    LET s1 == DrainAudio(st, env)
    IN  IF s1.raised THEN s1
        ELSE [s1 EXCEPT !.started = FALSE, !.text = <<>>, !.acc = <<>>]

\* mutant of OnTurnComplete: the signal is sent before the audio
OnTurnComplete_SignalFirst(st, env) ==
    LET s1 == DrainAudio(ClientSend(st, TurnCompleteMsg), env)
    IN  IF s1.raised THEN s1
        ELSE [s1 EXCEPT !.started = FALSE, !.text = <<>>, !.acc = <<>>]

\* lines 250-308: the turn_complete branch
OnTurnComplete(st, env) ==
    ResetTurn(ClientSend(DrainAudio(st, env), TurnCompleteMsg))

\* mutant of HandleResponse: a response carrying the TurnComplete marker has
\* its parts ignored
HandleResponse_MarkerOnly(st, resp, env) ==
    IF ~resp.server_content THEN st
    ELSE IF resp.turn_complete THEN OnTurnComplete(st, env)
    ELSE OnModelTurn(st, resp.parts)

\* mutant of HandleResponse: a response without server_content closes the
\* turn state
HandleResponse_ResetsOnUnknown(st, resp, env) ==
    IF ~resp.server_content THEN ResetTurn(st)
    ELSE LET s1 == OnModelTurn(st, resp.parts)
         IN  IF resp.turn_complete /\ ~s1.raised
             THEN OnTurnComplete(s1, env)
             ELSE s1

\* lines 191-308: the body of the inner loop for one response
HandleResponse(st, resp, env) ==
    IF ~resp.server_content THEN st
    ELSE LET s1 == OnModelTurn(st, resp.parts)
         IN  IF resp.turn_complete /\ ~s1.raised
             THEN OnTurnComplete(s1, env)
             ELSE s1

FileNames == {"user_input_to_server.mp3", "gemini_complete_response.mp3"}

\* lines 319-328: an exception in the loop body ends the relay
AfterResponse(st) ==
    IF st.failed THEN "failed"
    ELSE IF st.raised THEN "send_failed"
    ELSE "running"

\* the environment matters to a response only when it closes a turn
QuietEnv == [pydub |-> TRUE, save_fails |-> FALSE, conv_fails |-> FALSE,
             mp3_len |-> 600]
EnvsFor(resp) == IF resp.turn_complete THEN CodecEnvs ELSE {QuietEnv}

\* the handler's locals on entry; budget is the number of sends the client
\* connection still accepts
Locals(budget) ==
    [started |-> audio_start_sent,
     text    |-> current_text_response,
     acc     |-> accumulated_audio_this_turn,
     files   |-> files,
     sent    |-> <<>>,
     calls   |-> <<>>,
     budget  |-> budget,
     raised  |-> FALSE,
     failed  |-> FALSE]

Unlimited == MaxParts + 3

\* session.receive() yields one response and the loop body handles it.  The
\* client connection either outlives the handler or fails at one of its
\* sends (lines 319-328: the exception ends the relay).
ReceiveFrom(responses) ==
    /\ recvPc = "running"
    /\ \E resp \in responses : \E env \in EnvsFor(resp) :
         LET wanted == Len(HandleResponse(Locals(Unlimited), resp, env).sent)
         IN  \E budget \in (IF clientOpen THEN 0..wanted ELSE {0}) :
               LET st == HandleResponse(Locals(budget), resp, env)
               IN  /\ audio_start_sent' = st.started
                   /\ current_text_response' = st.text
                   /\ accumulated_audio_this_turn' = st.acc
                   /\ files' = st.files
                   /\ toClient' = toClient \o st.sent
                   /\ clientOpen' = (clientOpen /\ (st.raised => st.failed))
                   /\ recvPc' = AfterResponse(st)
                   /\ events' = Append(events, resp)
                   /\ nextId' = nextId + Len(resp.parts)
                   /\ codecCalls' = codecCalls \o st.calls
                   /\ UNCHANGED <<inVars, sessVars>>

Receive ==
    /\ Len(events) < MaxEvents
    /\ ReceiveFrom(Responses(nextId))

\* mutant of UpstreamEnd: the open turn is closed as if TurnComplete had
\* arrived
UpstreamEnd_Flushes ==
    /\ recvPc = "running"
    /\ LET st == OnTurnComplete(Locals(Unlimited), QuietEnv)
       IN  /\ toClient' = toClient \o st.sent
           /\ codecCalls' = codecCalls \o st.calls
    /\ recvPc' = "ended"
    /\ UNCHANGED <<audio_start_sent, current_text_response,
                   accumulated_audio_this_turn, clientOpen,
                   events, nextId, files, inVars, sessVars>>

\* Responses whose audio part stands for the audio of a very long turn:
\* 4 * 2^30 + 4800 bytes, more than a 4-byte length field can hold.
LongResponses(id) ==
    {[server_content |-> TRUE,
      parts |-> <<[kind |-> "audio", len |-> RELAY_MIN_BYTES, gib |-> 4,
                   id |-> id]>>,
      turn_complete |-> tc] : tc \in BOOLEAN}

ReceiveLong ==
    /\ Len(events) < MaxEvents
    /\ nextId <= MaxFrags
    /\ ReceiveFrom(LongResponses(nextId))

\* the stream ends, or session.receive() raises, before the turn completed
\* (lines 314-317, 322-328)
UpstreamEnd ==
    /\ recvPc = "running"
    /\ recvPc' = "ended"
    /\ UNCHANGED <<audio_start_sent, current_text_response,
                   accumulated_audio_this_turn, toClient, clientOpen,
                   events, nextId, files, inVars, codecCalls, sessVars>>

\* ---------------------------------------------------------- send_to_gemini
\* A media chunk of a client message: its "mime_type" (possibly absent) and
\* its "data", which is the base64 text of `bytes` when data = "ok" and is
\* not decodable (or absent) when data = "bad".
ChunkShapes ==
    {[has_mime |-> TRUE,  mime_type |-> "audio/pcm",  data |-> "ok",  len |-> 3200],
     [has_mime |-> TRUE,  mime_type |-> "audio/pcm",  data |-> "ok",  len |-> 200],
     [has_mime |-> TRUE,  mime_type |-> "image/jpeg", data |-> "ok",  len |-> 200],
     [has_mime |-> TRUE,  mime_type |-> "text/plain", data |-> "ok",  len |-> 200],
     [has_mime |-> TRUE,  mime_type |-> "audio/pcm",  data |-> "bad", len |-> 0],
     [has_mime |-> FALSE, mime_type |-> "",           data |-> "ok",  len |-> 200]}

ChunksFrom(shapes, id) ==
    [i \in 1..Len(shapes) |->
        [has_mime  |-> shapes[i].has_mime,
         mime_type |-> shapes[i].mime_type,
         data      |-> shapes[i].data,
         bytes     |-> <<[id |-> id + i - 1, len |-> shapes[i].len]>>]]

\* the frames a client may send: not JSON, JSON without "realtime_input",
\* "realtime_input" without "media_chunks", or a list of chunks
ClientMessages(id) ==
    {[json |-> FALSE, has_input |-> FALSE, has_chunks |-> FALSE,
      chunks |-> <<>>],
     [json |-> TRUE, has_input |-> FALSE, has_chunks |-> FALSE,
      chunks |-> <<>>],
     [json |-> TRUE, has_input |-> TRUE, has_chunks |-> FALSE,
      chunks |-> <<>>]}
    \cup
    {[json |-> TRUE, has_input |-> TRUE, has_chunks |-> TRUE,
      chunks |-> ChunksFrom(sh, id)] :
        sh \in UNION {[1..n -> ChunkShapes] :
                        n \in 0..Min(MaxChunks, MaxMedia - (id - 1))}}

AudioPacket(data, mime) == [audio |-> [data |-> data, mime_type |-> mime]]
ImagePacket(data, mime) ==
    [media_chunks |-> <<[data |-> data, mime_type |-> mime]>>]

IsAudioPacket(p) == "audio" \in DOMAIN p
IsImagePacket(p) == "media_chunks" \in DOMAIN p

\* await session.send_realtime_input(...): raises once the stream is gone
UpstreamSend(st, packet) ==
    IF st.raised THEN st
    ELSE IF st.budget = 0 THEN [st EXCEPT !.raised = TRUE, !.stream_failed = TRUE]
    ELSE [st EXCEPT !.sent = Append(@, packet), !.budget = @ - 1]

Raise(st) == [st EXCEPT !.raised = TRUE]

\* mutant of OnChunk: image chunks are not forwarded
OnChunk_SkipsImage(st, chunk, env) ==
    IF st.raised THEN st
    ELSE IF ~chunk.has_mime THEN Raise(st)
    ELSE IF chunk.mime_type = "audio/pcm"
    THEN IF chunk.data # "ok" THEN Raise(st)
         ELSE UpstreamSend(st, AudioPacket(chunk.bytes, chunk.mime_type))
    ELSE st

\* lines 102-163: one chunk
OnChunk(st, chunk, env) ==
    IF st.raised THEN st
    ELSE IF ~chunk.has_mime THEN Raise(st)
    ELSE IF chunk.mime_type = "audio/pcm"
    THEN IF chunk.data # "ok" THEN Raise(st)
         ELSE LET audio_data == chunk.bytes
                  saved == save_pcm_as_mp3(audio_data, INPUT_RATE, env)
                  s0 == IF saved = NoResult THEN st
                        ELSE [st EXCEPT !.files["user_input_to_server.mp3"]
                                            = saved]
                  s1 == [s0 EXCEPT !.calls = Append(@,
                            SaveCall(audio_data, INPUT_RATE, saved))]
              IN  UpstreamSend(s1, AudioPacket(audio_data, chunk.mime_type))
    ELSE IF chunk.mime_type = "image/jpeg"
    THEN IF chunk.data # "ok" THEN Raise(st)
         ELSE UpstreamSend(st, ImagePacket(chunk.bytes, chunk.mime_type))
    ELSE st

RECURSIVE OnChunks(_, _, _)
OnChunks(st, chunks, env) ==
    IF chunks = <<>> THEN st
    ELSE OnChunks(OnChunk(st, Head(chunks), env), Tail(chunks), env)

\* lines 98-166: the body of the loop for one message; an exception raised
\* anywhere in it is caught at line 165 and ends the handling of the message
HandleMessage(st, message, env) ==
    IF ~message.json THEN Raise(st)
    ELSE IF ~message.has_input THEN st
    ELSE IF ~message.has_chunks THEN Raise(st)
    ELSE OnChunks(st, message.chunks, env)

\* mutant of AfterMessage: an exception in the loop body ends the loop
AfterMessage_ExitsOnError(st) == IF st.raised THEN "done" ELSE "running"

\* lines 165-166: an exception in the loop body is printed and the loop
\* goes on to the next message
AfterMessage(st) == "running"

SaveEnvs == {e \in CodecEnvs : ~e.conv_fails /\ e.mp3_len = 600}

InLocals(budget) ==
    [files  |-> files,
     sent   |-> <<>>,
     calls  |-> <<>>,
     budget |-> budget,
     raised |-> FALSE,
     stream_failed |-> FALSE]

\* the loop reads one message and handles it.  The upstream stream either
\* outlives the handler or fails at one of its sends.
ClientMessageFrom(messages, envs) ==
    /\ sendPc = "running"
    /\ clientOpen
    /\ \E message \in messages : \E env \in envs :
         LET wanted == Len(HandleMessage(InLocals(MaxChunks), message, env).sent)
         IN  \E budget \in (IF upstreamOpen THEN 0..wanted ELSE {0}) :
               LET st == HandleMessage(InLocals(budget), message, env)
               IN  /\ files' = st.files
                   /\ toUpstream' = toUpstream \o st.sent
                   /\ upstreamOpen' = (upstreamOpen /\ ~st.stream_failed)
                   /\ clientMsgs' = Append(clientMsgs,
                                           [message |-> message,
                                            base |-> Len(toUpstream),
                                            raised |-> st.raised,
                                            stream_failed |-> st.stream_failed])
                   /\ nextChunk' = nextChunk + Len(message.chunks)
                   /\ sendPc' = AfterMessage(st)
                   /\ codecCalls' = codecCalls \o st.calls
                   /\ UNCHANGED <<audio_start_sent,
                                  current_text_response,
                                  accumulated_audio_this_turn, recvPc,
                                  toClient, clientOpen, events, nextId,
                                  sessVars>>

ClientMessage ==
    /\ Len(clientMsgs) < MaxMsgs
    /\ ClientMessageFrom(ClientMessages(nextChunk), SaveEnvs)

\* the client goes away
ClientClose ==
    /\ clientOpen
    /\ clientOpen' = FALSE
    /\ UNCHANGED <<audio_start_sent, current_text_response,
                   accumulated_audio_this_turn, recvPc, toClient,
                   events, nextId, files, inVars, codecCalls, sessVars>>

\* mutant of InboundEnd: on its way out the Inbound Relay clears the turn
\* buffer and tells the client
InboundEnd_TouchesTurn ==
    /\ sendPc = "running"
    /\ ~clientOpen
    /\ sendPc' = "done"
    /\ accumulated_audio_this_turn' = <<>>
    /\ toClient' = Append(toClient, TurnCompleteMsg)
    /\ UNCHANGED <<audio_start_sent, current_text_response, recvPc,
                   clientOpen, events, nextId, files, toUpstream,
                   upstreamOpen, clientMsgs, nextChunk, codecCalls, sessVars>>

\* lines 97, 167-171: the iteration over client_websocket ends when the
\* connection is closed
InboundEnd ==
    /\ sendPc = "running"
    /\ ~clientOpen
    /\ sendPc' = "done"
    /\ UNCHANGED <<outVars, toUpstream, upstreamOpen, clientMsgs, nextChunk,
                   codecCalls, sessVars>>

\* --------------------------------------------------- gemini_session_handler
\* lines 54-80: the LiveConnectConfig built from literals
FixedConfig ==
    [response_modalities |-> <<"AUDIO">>,
     voice_name          |-> "Aoede",
     system_instruction  |-> "NativeFlow"]

\* what a client may put under "setup" in its first message
ClientSetups ==
    {[response_modalities |-> <<"TEXT">>,
      voice_name          |-> "Puck",
      system_instruction  |-> "client"],
     [response_modalities |-> <<"AUDIO">>,
      voice_name          |-> "Aoede",
      system_instruction  |-> "NativeFlow"]}
\* the default of config_data.get("setup", {})
EmptySetup == [empty |-> TRUE]

\* the audio chunk a first frame may carry under "realtime_input"
HandshakeChunks ==
    ChunksFrom(<<[has_mime |-> TRUE, mime_type |-> "audio/pcm",
                  data |-> "ok", len |-> 3200]>>, 0)

\* the first frame of a connection: not JSON, JSON that is no object (no
\* .get), or an object with or without "setup", which may carry
\* "realtime_input" as well
HandshakeMessages ==
    {[json |-> FALSE, object |-> FALSE, has_setup |-> FALSE,
      setup |-> EmptySetup, has_input |-> FALSE, chunks |-> <<>>],
     [json |-> TRUE, object |-> FALSE, has_setup |-> FALSE,
      setup |-> EmptySetup, has_input |-> FALSE, chunks |-> <<>>],
     [json |-> TRUE, object |-> TRUE, has_setup |-> FALSE,
      setup |-> EmptySetup, has_input |-> FALSE, chunks |-> <<>>],
     [json |-> TRUE, object |-> TRUE, has_setup |-> FALSE,
      setup |-> EmptySetup, has_input |-> TRUE, chunks |-> HandshakeChunks]}
    \cup
    {[json |-> TRUE, object |-> TRUE, has_setup |-> TRUE, setup |-> c,
      has_input |-> FALSE, chunks |-> <<>>] :
        c \in ClientSetups}

\* mutant of InitialPackets: the realtime input of the first message is
\* forwarded once the upstream session is open
InitialPackets_Replayed(m) ==
    IF m.has_input
    THEN <<AudioPacket(m.chunks[1].bytes, m.chunks[1].mime_type)>>
    ELSE <<>>

\* lines 48-50, 97: the first message is taken by recv() and only its
\* "setup" is looked at; the loop of send_to_gemini starts with the message
\* after it, so nothing of the first message is on the upstream stream
\* when the relays start
InitialPackets(m) == <<>>

\* mutant of LiveConfig: the client's setup is handed to live.connect
LiveConfig_FromClient(setup) == setup

\* lines 50-80: `config` is first the client's setup (line 50) and is then
\* assigned the literal LiveConnectConfig (line 54)
LiveConfig(setup) == FixedConfig

\* mutant of OnSessionError: the exception leaves the handler
OnSessionError_Propagates(e) == [pc |-> "raised", error |-> e]

\* lines 341-344: an exception in the handler's body is printed and the
\* handler returns
OnSessionError(e) == [pc |-> "closed", error |-> e]

\* lines 48-50: read and parse the first client message
Handshake ==
    /\ sessPc = "handshake"
    /\ \/ /\ ~clientOpen
          /\ sessPc' = OnSessionError("recv").pc
          /\ sessionError' = OnSessionError("recv").error
          /\ UNCHANGED handshake
       \/ /\ clientOpen
          /\ \E m \in HandshakeMessages :
               /\ handshake' = m
               /\ IF ~m.json
                  THEN /\ sessPc' = OnSessionError("json.loads").pc
                       /\ sessionError' = OnSessionError("json.loads").error
                  ELSE IF ~m.object
                  THEN /\ sessPc' = OnSessionError("get").pc
                       /\ sessionError' = OnSessionError("get").error
                  ELSE /\ sessPc' = "connecting"
                       /\ UNCHANGED sessionError
    /\ UNCHANGED <<outVars, inVars, codecCalls, session, upstreamConfig>>

\* line 82: client.aio.live.connect(model=MODEL, config=config); on success
\* both relays are started (lines 336-338)
Connect ==
    /\ sessPc = "connecting"
    /\ \/ /\ session' = "connected"
          /\ upstreamConfig' = LiveConfig(handshake.setup)
          /\ sessPc' = "relaying"
          /\ sendPc' = "running"
          /\ recvPc' = "running"
          /\ upstreamOpen' = TRUE
          /\ toUpstream' = InitialPackets(handshake)
          /\ UNCHANGED sessionError
       \/ /\ sessPc' = OnSessionError("connect").pc
          /\ sessionError' = OnSessionError("connect").error
          /\ UNCHANGED <<session, upstreamConfig, sendPc, recvPc,
                         upstreamOpen, toUpstream>>
    /\ UNCHANGED <<audio_start_sent, current_text_response,
                   accumulated_audio_this_turn, toClient, clientOpen,
                   events, nextId, files, clientMsgs, nextChunk,
                   codecCalls, handshake>>

RelayReturned(pc) == pc \in {"done", "ended", "send_failed", "failed"}

\* mutant of GatherDone: the first relay to return ends the wait
GatherDone_FirstCompleted == RelayReturned(sendPc) \/ RelayReturned(recvPc)

\* line 339: asyncio.gather(send_task, receive_task) returns when both
\* tasks have returned
GatherDone == RelayReturned(sendPc) /\ RelayReturned(recvPc)

\* lines 339-344: gather returns, the `async with` block of line 82 is left,
\* which closes the upstream session, and the handler returns
Join ==
    /\ sessPc = "relaying"
    /\ GatherDone
    /\ session' = "closed"
    /\ upstreamOpen' = FALSE
    /\ sessPc' = "closed"
    /\ UNCHANGED <<outVars, sendPc, toUpstream, clientMsgs, nextChunk,
                   codecCalls, upstreamConfig, handshake, sessionError>>

\* The traffic of a whole session, reduced to what the handler's life cycle
\* depends on: responses carrying text parts only, client messages carrying
\* at most one audio chunk, an encoder that works.
SessionResponses(id) ==
    {r \in Responses(id) :
        \A i \in 1..Len(r.parts) : r.parts[i].kind = "text"}
SessionMessages(id) ==
    {m \in ClientMessages(id) :
        /\ Len(m.chunks) <= 1
        /\ \A i \in 1..Len(m.chunks) :
              /\ m.chunks[i].has_mime
              /\ m.chunks[i].mime_type = "audio/pcm"
              /\ m.chunks[i].data = "ok"
              /\ BufLen(m.chunks[i].bytes) >= CODEC_MIN_BYTES}

SessionReceive ==
    /\ Len(events) + Len(clientMsgs) < MaxTraffic
    /\ ReceiveFrom(SessionResponses(nextId))

SessionClientMessage ==
    /\ Len(events) + Len(clientMsgs) < MaxTraffic
    /\ ClientMessageFrom(SessionMessages(nextChunk), {QuietEnv})

Init ==
    /\ audio_start_sent = FALSE
    /\ current_text_response = <<>>
    /\ accumulated_audio_this_turn = <<>>
    /\ recvPc = "running"
    /\ toClient = <<>>
    /\ clientOpen = TRUE
    /\ events = <<>>
    /\ nextId = 1
    /\ files = [f \in FileNames |-> NoResult]
    /\ sendPc = "running"
    /\ toUpstream = <<>>
    /\ upstreamOpen = TRUE
    /\ clientMsgs = <<>>
    /\ nextChunk = 1
    /\ codecCalls = <<>>
    /\ sessPc = "relaying"
    /\ session = "connected"
    /\ upstreamConfig = FixedConfig
    /\ handshake \in {m \in HandshakeMessages :
                         ~m.has_setup /\ m.object /\ ~m.has_input}
    /\ sessionError = "none"

\* the Outbound Relay alone
NextOut ==
    \/ Receive
    \/ UpstreamEnd

SpecOut == Init /\ [][NextOut]_vars

\* the Outbound Relay alone, with turns of any length
NextLong ==
    \/ Receive
    \/ ReceiveLong
    \/ UpstreamEnd

SpecLong == Init /\ [][NextLong]_vars

\* the Inbound Relay alone
NextIn ==
    \/ ClientMessage
    \/ ClientClose
    \/ InboundEnd

SpecIn == Init /\ [][NextIn]_vars

\* Another session served by the same process (line 576 starts one handler
\* per connection) calls save_pcm_as_mp3 with the same literal file names:
\* at line 105 for a chunk of its client, at line 260 for a turn of its
\* upstream.  PeerPcm stands for that session's bytes.
PeerPcm(filename) ==
    IF filename = "user_input_to_server.mp3"
    THEN <<[id |-> 0, len |-> 3200]>>
    ELSE <<[id |-> 0, len |-> RELAY_MIN_BYTES]>>
FileRate(filename) ==
    IF filename = "user_input_to_server.mp3" THEN INPUT_RATE ELSE OUTPUT_RATE

PeerSave ==
    /\ \E f \in FileNames : \E env \in SaveEnvs :
         LET saved == save_pcm_as_mp3(PeerPcm(f), FileRate(f), env)
         IN  files' = IF saved = NoResult THEN files
                      ELSE [files EXCEPT ![f] = saved]
    /\ UNCHANGED <<audio_start_sent, current_text_response,
                   accumulated_audio_this_turn, recvPc, toClient, clientOpen,
                   events, nextId, inVars, codecCalls, sessVars>>

\* both relays of one session, on reduced traffic, next to another session
NextPair ==
    \/ SessionReceive
    \/ UpstreamEnd
    \/ SessionClientMessage
    \/ ClientClose
    \/ InboundEnd
    \/ PeerSave

SpecPair == Init /\ [][NextPair]_vars

\* ------------------------------------------------- the codec on its own
\* convert_pcm_to_mp3 applied to drawn inputs: the empty buffer and one
\* buffer of each size, at either sample rate, in every environment of the
\* encoder
CodecSizes == {999, 1000, 4800}
CodecBuffers == {<<>>} \cup {<<[id |-> 1, len |-> n]>> : n \in CodecSizes}
CodecRates == {OUTPUT_RATE, INPUT_RATE}
ConvertEnvs == {env \in CodecEnvs : ~env.save_fails}

\* one call with what it was given and how it ended
ConvertRun(pcm_data, sample_rate, env) ==
    LET run == ConvertExcept(ConvertTry(pcm_data, sample_rate, env))
    IN  [fn |-> "convert_pcm_to_mp3", pcm |-> pcm_data, rate |-> sample_rate,
         env |-> env, raised |-> run.raised, encoder_ran |-> run.encoder_ran,
         result |-> run.result]

ConvertAny ==
    /\ Len(codecCalls) < MaxCalls
    /\ \E pcm_data \in CodecBuffers : \E sample_rate \in CodecRates :
       \E env \in ConvertEnvs :
         codecCalls' =
             Append(codecCalls, ConvertRun(pcm_data, sample_rate, env))
    /\ UNCHANGED <<outVars, inVars, sessVars>>

SpecCodec == Init /\ [][ConvertAny]_vars

\* a connection from the moment gemini_session_handler is called
SessionInit ==
    /\ audio_start_sent = FALSE
    /\ current_text_response = <<>>
    /\ accumulated_audio_this_turn = <<>>
    /\ recvPc = "idle"
    /\ toClient = <<>>
    /\ clientOpen = TRUE
    /\ events = <<>>
    /\ nextId = 1
    /\ files = [f \in FileNames |-> NoResult]
    /\ sendPc = "idle"
    /\ toUpstream = <<>>
    /\ upstreamOpen = FALSE
    /\ clientMsgs = <<>>
    /\ nextChunk = 1
    /\ codecCalls = <<>>
    /\ sessPc = "handshake"
    /\ session = "none"
    /\ upstreamConfig = NoResult
    /\ handshake = NoResult
    /\ sessionError = "none"

SessionNext ==
    \/ Handshake
    \/ Connect
    \/ SessionReceive
    \/ UpstreamEnd
    \/ SessionClientMessage
    \/ ClientClose
    \/ InboundEnd
    \/ Join

\* The whole session.  asyncio resumes a task whose awaited result is
\* ready: the iteration over a closed client connection ends (InboundEnd)
\* and gather returns once both tasks have returned (Join).  Nothing obliges
\* the client or the upstream service to send or to close.
Spec ==
    /\ SessionInit
    /\ [][SessionNext]_vars
    /\ WF_vars(InboundEnd)
    /\ WF_vars(Join)

\* ===================================================== properties: helpers
Count(seq, P(_)) == Len(SelectSeq(seq, P))
Prefix(seq, n) == SubSeq(seq, 1, n)

\* an upstream response carrying the TurnComplete marker
ClosesTurn(e) == e.server_content /\ e.turn_complete

\* Turns are numbered from 0.  A response belongs to the turn numbered by
\* the TurnComplete events before it, a client-facing message to the turn
\* numbered by the turn_complete messages before it.
TurnOfEvent(k) == Count(Prefix(events, k - 1), ClosesTurn)
TurnOfMsg(i)   == Count(Prefix(toClient, i - 1), IsTurnComplete)

\* the handling of response k ran to its end (nothing raised in it)
Completed(k) == ~(recvPc \in {"send_failed", "failed"} /\ k = Len(events))

\* the TurnComplete events handled to the end, and the turns they closed
ClosingEvents ==
    {k \in 1..Len(events) : ClosesTurn(events[k]) /\ Completed(k)}
ClosedTurns == {TurnOfEvent(k) : k \in ClosingEvents}

RECURSIVE PartsIn(_, _)
PartsIn(k, t) ==
    IF k = 0 THEN <<>>
    ELSE PartsIn(k - 1, t)
         \o (IF TurnOfEvent(k) = t THEN events[k].parts ELSE <<>>)
\* the parts that arrived in turn t, in arrival order
PartsOfTurn(t) == PartsIn(Len(events), t)

RECURSIVE MsgsIn(_, _)
MsgsIn(i, t) ==
    IF i = 0 THEN <<>>
    ELSE MsgsIn(i - 1, t)
         \o (IF TurnOfMsg(i) = t THEN <<toClient[i]>> ELSE <<>>)
\* the messages sent to the client in turn t, in sending order
MsgsOfTurn(t) == MsgsIn(Len(toClient), t)

IsAudioPart(p) == p.kind = "audio"
IsTextPart(p)  == p.kind = "text"
Bytes(parts)   == [i \in 1..Len(parts) |-> Fragment(parts[i])]
\* the concatenation of the audio fragments of turn t
AudioOfTurn(t) == Bytes(SelectSeq(PartsOfTurn(t), IsAudioPart))
TextsOfTurn(t) ==
    LET ps == SelectSeq(PartsOfTurn(t), IsTextPart)
    IN  [i \in 1..Len(ps) |-> ps[i].id]

\* the PCM bytes inside an audio message: base64-decode it, then take the
\* samples out of the container
PcmOf(m) == IF "format" \in DOMAIN m THEN m.audio.of.data ELSE m.audio.of.pcm

\* ================================================================= claims

\* C1: every TurnComplete event handled by receive_from_gemini leads to
\* exactly one turn_complete message, no turn_complete message is sent
\* without such an event, and an audio message is always directly followed
\* by the turn_complete of its turn (the only exception being a send that
\* raised, which ends the relay).
C1_TurnCompleteOncePerEvent ==
    /\ Count(toClient, IsTurnComplete) = Cardinality(ClosingEvents)
    /\ \A i \in 1..Len(toClient) :
         IsAudio(toClient[i]) =>
            IF i < Len(toClient) THEN IsTurnComplete(toClient[i + 1])
            ELSE recvPc = "send_failed" /\ ClosesTurn(events[Len(events)])

C1_Witness ==
    /\ recvPc = "running"
    /\ Cardinality(ClosingEvents) = 2
    /\ \E i \in 1..Len(toClient) - 1 :
         IsAudio(toClient[i]) /\ IsTurnComplete(toClient[i + 1])

\* C2: in every turn audio_start is sent at most once, only when an audio
\* fragment arrived in that turn, and before the turn's audio message; every
\* turn in which an audio fragment was handled has its own audio_start, and
\* the flag is set exactly while the open turn has had its signal.
C2_AudioStartOncePerTurn ==
    /\ \A t \in 0..Count(toClient, IsTurnComplete) :
         LET M == MsgsOfTurn(t) IN
         /\ Count(M, IsAudioStart) <= 1
         /\ Count(M, IsAudioStart) = 1 => AudioOfTurn(t) # <<>>
         /\ \A j \in 1..Len(M) :
              IsAudio(M[j]) => \E i \in 1..(j - 1) : IsAudioStart(M[i])
    /\ \A k \in 1..Len(events) :
         (Completed(k) /\ SelectSeq(events[k].parts, IsAudioPart) # <<>>)
            => Count(MsgsOfTurn(TurnOfEvent(k)), IsAudioStart) = 1
    /\ recvPc = "running" =>
         audio_start_sent =
            (Count(MsgsOfTurn(Count(toClient, IsTurnComplete)),
                   IsAudioStart) = 1)

C2_Witness ==
    /\ Count(toClient, IsAudioStart) = 2
    /\ Count(toClient, IsTurnComplete) = 2
    /\ Count(toClient, IsAudio) >= 1

\* C3: the messages of a closed turn are, in this order: the text messages
\* of the turn's text fragments (in arrival order) and the audio_start
\* signal, then the audio message if there is one, then turn_complete; a
\* turn with enough audio has exactly one audio_start and one audio message.
C3_OrderWithinTurn ==
    \A t \in ClosedTurns :
       LET M == MsgsOfTurn(t)
           T == SelectSeq(M, IsText)
       IN  /\ M # <<>>
           /\ IsTurnComplete(M[Len(M)])
           /\ [i \in 1..Len(T) |-> T[i].text] = TextsOfTurn(t)
           /\ \A i \in 1..Len(M) : IsAudio(M[i]) => i = Len(M) - 1
           /\ BufLen(AudioOfTurn(t)) >= RELAY_MIN_BYTES =>
                 /\ Count(M, IsAudio) = 1
                 /\ Count(M, IsAudioStart) = 1

C3_Witness ==
    \E t \in ClosedTurns :
       LET M == MsgsOfTurn(t) IN
       /\ Len(M) = 4
       /\ IsAudioStart(M[1]) /\ IsText(M[2]) /\ IsAudio(M[3])
       /\ IsTurnComplete(M[4])
       /\ Len(SelectSeq(events, LAMBDA e : e.parts # <<>>)) >= 2

\* C4: an audio message is sent only for a turn whose TurnComplete event has
\* arrived, at most once per turn, and the PCM it carries is exactly the
\* concatenation, in arrival order, of the turn's audio fragments.
C4_AudioIsWholeTurnBuffer ==
    \A i \in 1..Len(toClient) :
       IsAudio(toClient[i]) =>
          LET t == TurnOfMsg(i) IN
          /\ \E k \in 1..Len(events) :
                ClosesTurn(events[k]) /\ TurnOfEvent(k) = t
          /\ PcmOf(toClient[i]) = AudioOfTurn(t)
          /\ Count(MsgsOfTurn(t), IsAudio) = 1

C4_Witness ==
    \E i \in 1..Len(toClient) :
       /\ IsAudio(toClient[i])
       /\ Len(PcmOf(toClient[i])) = 2
       /\ \E k \in 1..Len(events) :
            /\ ~ClosesTurn(events[k])
            /\ SelectSeq(events[k].parts, IsAudioPart) # <<>>
            /\ TurnOfEvent(k) = TurnOfMsg(i)

\* C5: a turn that closes with a buffer below the relay's threshold (an
\* empty buffer included) has no audio message and ends with turn_complete.
C5_SmallBufferNoAudio ==
    \A t \in ClosedTurns :
       BufLen(AudioOfTurn(t)) < RELAY_MIN_BYTES =>
          LET M == MsgsOfTurn(t) IN
          /\ Count(M, IsAudio) = 0
          /\ M # <<>>
          /\ IsTurnComplete(M[Len(M)])

C5_Witness ==
    /\ \E t \in ClosedTurns : AudioOfTurn(t) = <<>>
    /\ \E t \in ClosedTurns :
          /\ BufLen(AudioOfTurn(t)) > 0
          /\ BufLen(AudioOfTurn(t)) < RELAY_MIN_BYTES
          /\ Count(MsgsOfTurn(t), IsTurnComplete) = 1

\* a turn made of one 200-byte audio fragment and the TurnComplete marker
OnlySmallFragment(t) ==
    /\ Len(PartsOfTurn(t)) = 1
    /\ PartsOfTurn(t)[1].kind = "audio"
    /\ PartsOfTurn(t)[1].len = 200

\* C6 as stated: such a turn shows the client turn_complete and nothing else
C6_Original_OnlyTurnComplete ==
    \A t \in ClosedTurns :
       OnlySmallFragment(t) => MsgsOfTurn(t) = <<TurnCompleteMsg>>

\* C6: a turn made of one 200-byte audio fragment and TurnComplete shows the
\* client audio_start and then turn_complete, and no audio message.
C6_SmallFragmentTurn ==
    \A t \in ClosedTurns :
       OnlySmallFragment(t) =>
          MsgsOfTurn(t) = <<AudioStartMsg, TurnCompleteMsg>>

C6_Witness ==
    \E t \in ClosedTurns : OnlySmallFragment(t)

\* C7 as stated: a turn closing with at least the codec's 1000 bytes gets an
\* audio message
C7_Original_CodecThreshold ==
    \A t \in ClosedTurns :
       BufLen(AudioOfTurn(t)) >= CODEC_MIN_BYTES =>
          Count(MsgsOfTurn(t), IsAudio) = 1

\* C7: the relay applies its own threshold: a turn closing with at least
\* 4800 bytes gets exactly one audio message, a turn closing with fewer
\* (also when the codec's 1000 bytes are met) gets none.
C7_RelayThreshold ==
    \A t \in ClosedTurns :
       Count(MsgsOfTurn(t), IsAudio) =
          (IF BufLen(AudioOfTurn(t)) >= RELAY_MIN_BYTES THEN 1 ELSE 0)

C7_Witness ==
    /\ \E t \in ClosedTurns :
          /\ BufLen(AudioOfTurn(t)) >= RELAY_MIN_BYTES
          /\ \E i \in 1..Len(MsgsOfTurn(t)) :
                /\ IsAudio(MsgsOfTurn(t)[i])
                /\ "format" \in DOMAIN MsgsOfTurn(t)[i]
    /\ \E t \in ClosedTurns :
          /\ BufLen(AudioOfTurn(t)) >= CODEC_MIN_BYTES
          /\ BufLen(AudioOfTurn(t)) < RELAY_MIN_BYTES

\* the turn in which the part with this identity arrived
TurnOfPart(id) ==
    TurnOfEvent(CHOOSE k \in 1..Len(events) :
                   \E j \in 1..Len(events[k].parts) :
                      events[k].parts[j].id = id)

\* C8: an audio message carries only fragments that arrived in its own turn,
\* the open turn's buffer holds only fragments that arrived after the last
\* TurnComplete, and it is empty right after a TurnComplete was handled.
C8_TurnIsolation ==
    /\ \A i \in 1..Len(toClient) :
         IsAudio(toClient[i]) =>
            \A j \in 1..Len(PcmOf(toClient[i])) :
               TurnOfPart(PcmOf(toClient[i])[j].id) = TurnOfMsg(i)
    /\ recvPc # "send_failed" =>
         /\ \A j \in 1..Len(accumulated_audio_this_turn) :
              TurnOfPart(accumulated_audio_this_turn[j].id)
                 = Count(events, ClosesTurn)
         /\ (events # <<>> /\ ClosesTurn(events[Len(events)]))
               => accumulated_audio_this_turn = <<>>

C8_Witness ==
    /\ \E i \in 1..Len(toClient) : IsAudio(toClient[i])
    /\ Count(events, ClosesTurn) = 1
    /\ accumulated_audio_this_turn # <<>>

\* ------------------------------------------------ Inbound Relay: helpers
Forwardable(c) == c.mime_type \in {"audio/pcm", "image/jpeg"}

\* a message whose handling raises nothing: JSON, and if it has
\* "realtime_input" then with "media_chunks" whose chunks all name a mime
\* type and, when of a forwarded type, carry decodable data
WellFormed(m) ==
    /\ m.json
    /\ m.has_input =>
         /\ m.has_chunks
         /\ \A i \in 1..Len(m.chunks) :
              /\ m.chunks[i].has_mime
              /\ Forwardable(m.chunks[i]) => m.chunks[i].data = "ok"

PacketFor(c) ==
    IF c.mime_type = "audio/pcm" THEN AudioPacket(c.bytes, "audio/pcm")
    ELSE ImagePacket(c.bytes, "image/jpeg")

\* the packets a well-formed message is to produce, in chunk order
Expected(m) ==
    LET cs == SelectSeq(m.chunks, Forwardable)
    IN  [i \in 1..Len(cs) |-> PacketFor(cs[i])]

\* what message k added to the upstream stream
ForwardedBy(k) ==
    SubSeq(toUpstream, clientMsgs[k].base + 1,
           IF k < Len(clientMsgs) THEN clientMsgs[k + 1].base
           ELSE Len(toUpstream))

\* C9: while the upstream stream accepts packets, a well-formed client
\* message puts on it exactly one audio packet per audio/pcm chunk and one
\* image packet per image/jpeg chunk, in chunk order, after the packets of
\* the messages before it; chunks of other types add nothing and raise
\* nothing.
C9_InboundForwardsInOrder ==
    \A k \in 1..Len(clientMsgs) :
       (WellFormed(clientMsgs[k].message) /\ ~clientMsgs[k].stream_failed)
          => /\ ~clientMsgs[k].raised
             /\ ForwardedBy(k) = Expected(clientMsgs[k].message)

C9_Witness ==
    /\ Len(clientMsgs) = 2
    /\ \A k \in 1..2 : WellFormed(clientMsgs[k].message)
    /\ Len(toUpstream) = 2
    /\ IsAudioPacket(toUpstream[1]) /\ IsImagePacket(toUpstream[2])
    /\ Len(ForwardedBy(2)) = 1
    /\ Len(clientMsgs[2].message.chunks) = 2
    /\ clientMsgs[2].message.chunks[1].mime_type = "text/plain"

\* C10: a malformed client message does not end send_to_gemini: after it the
\* relay is still reading as long as the client is connected, and a later
\* well-formed message is forwarded in full.
C10_MalformedMessageSkipped ==
    \A j \in 1..Len(clientMsgs) :
       ~WellFormed(clientMsgs[j].message) =>
          /\ clientOpen => sendPc = "running"
          /\ \A k \in (j + 1)..Len(clientMsgs) :
               (WellFormed(clientMsgs[k].message)
                  /\ ~clientMsgs[k].stream_failed)
                  => ForwardedBy(k) = Expected(clientMsgs[k].message)

C10_Witness ==
    /\ Len(clientMsgs) = 2
    /\ ~clientMsgs[1].message.json
    /\ WellFormed(clientMsgs[2].message)
    /\ Len(ForwardedBy(2)) = 2
    /\ IsAudioPacket(toUpstream[1]) /\ IsImagePacket(toUpstream[2])
    /\ sendPc = "running"

\* C11: when forwarding a packet raises a stream-level failure, the Inbound
\* Relay loop exits: the message whose forwarding failed is the last one it
\* reads, and send_to_gemini has returned.
C11_Original_ExitsOnStreamFailure ==
    \A k \in 1..Len(clientMsgs) :
       clientMsgs[k].stream_failed
          => /\ sendPc = "done"
             /\ k = Len(clientMsgs)

\* the calls of convert_pcm_to_mp3 made on the buffer of turn t
IsConvertCall(c) == c.fn = "convert_pcm_to_mp3"
ConvertCallsOfTurn(t) ==
    LET onTurn(c) == IsConvertCall(c) /\ c.pcm = AudioOfTurn(t)
    IN  SelectSeq(codecCalls, onTurn)

\* C12: a turn that closes with at least 4800 bytes has convert_pcm_to_mp3
\* called once on its buffer and gets exactly one audio message, directly
\* followed by turn_complete.  When the call returned nothing the message
\* carries "format": "wav" and the base64 text of a WAV container (PCM, one
\* channel, 24000 Hz, 16 bits) whose data is the turn's buffer; when the
\* call returned an MP3 the message carries that MP3 and no format marker.
C12_FallbackOnFailedCompression ==
    \A t \in ClosedTurns :
       BufLen(AudioOfTurn(t)) >= RELAY_MIN_BYTES =>
          LET M == MsgsOfTurn(t)
              A == SelectSeq(M, IsAudio)
              calls == ConvertCallsOfTurn(t)
          IN  /\ Len(calls) = 1
              /\ Len(A) = 1
              /\ Len(M) >= 2
              /\ IsAudio(M[Len(M) - 1])
              /\ IsTurnComplete(M[Len(M)])
              /\ IF calls[1].result = NoResult
                 THEN /\ DOMAIN A[1] = {"audio", "format"}
                      /\ A[1].format = "wav"
                      /\ A[1].audio.kind = "b64"
                      /\ LET wav == A[1].audio.of
                         IN  /\ wav.kind = "wav"
                             /\ wav.format = 1
                             /\ wav.channels = 1
                             /\ wav.sample_rate = OUTPUT_RATE
                             /\ wav.bits = 16
                             /\ wav.byte_rate = OUTPUT_RATE * 2
                             /\ wav.block_align = 2
                             /\ wav.data = AudioOfTurn(t)
                             /\ wav.data_size = BufLen(AudioOfTurn(t))
                             /\ wav.file_size = 36 + BufLen(AudioOfTurn(t))
                 ELSE /\ DOMAIN A[1] = {"audio"}
                      /\ A[1].audio = calls[1].result
                      /\ A[1].audio.of.kind = "mp3"

\* both outcomes of the compression step have happened, in two turns
C12_Witness ==
    /\ \E t \in ClosedTurns :
          /\ BufLen(AudioOfTurn(t)) >= RELAY_MIN_BYTES
          /\ ConvertCallsOfTurn(t)[1].result = NoResult
          /\ "format" \in DOMAIN MsgsOfTurn(t)[Len(MsgsOfTurn(t)) - 1]
    /\ \E t \in ClosedTurns :
          /\ BufLen(AudioOfTurn(t)) >= RELAY_MIN_BYTES
          /\ ConvertCallsOfTurn(t)[1].result # NoResult
          /\ "format" \notin DOMAIN MsgsOfTurn(t)[Len(MsgsOfTurn(t)) - 1]

\* C19: when the upstream stream ends while a turn is open, nothing is sent
\* for that turn beyond what its fragments had already caused (audio_start
\* and the text messages): no audio message and no turn_complete, so the
\* turn_complete messages are those of the TurnComplete events; and the
\* relay has returned.
C19_PartialTurnDiscarded ==
    recvPc = "ended" =>
       LET t == Count(events, ClosesTurn)
           M == MsgsOfTurn(t)
           T == SelectSeq(M, IsText)
       IN  /\ Count(toClient, IsTurnComplete) = t
           /\ \A i \in 1..Len(M) : IsText(M[i]) \/ IsAudioStart(M[i])
           /\ [i \in 1..Len(T) |-> T[i].text] = TextsOfTurn(t)
           /\ ~ENABLED Receive

\* the stream ended in a turn that had received text and enough audio for
\* an audio message
C19_Witness ==
    /\ recvPc = "ended"
    /\ LET t == Count(events, ClosesTurn)
       IN  /\ TextsOfTurn(t) # <<>>
           /\ BufLen(AudioOfTurn(t)) >= RELAY_MIN_BYTES
           /\ accumulated_audio_this_turn = AudioOfTurn(t)

\* the turns that have begun
Turns == 0..Count(events, ClosesTurn)

\* C20: a text fragment that arrives before the first audio fragment of its
\* turn has its text message sent before the turn's audio_start signal.
C20_Original_TextBeforeAudioStart ==
    \A t \in Turns :
       LET P == PartsOfTurn(t)
           M == MsgsOfTurn(t)
       IN  \A i \in 1..Len(P) :
              (IsTextPart(P[i]) /\ \A j \in 1..i : ~IsAudioPart(P[j]))
                 => \A x, a \in 1..Len(M) :
                       (IsText(M[x]) /\ M[x].text = P[i].id
                          /\ IsAudioStart(M[a])) => x < a

\* C14: the upstream session is closed by the handler only after both
\* relays have returned: in no state is it closed while send_to_gemini or
\* receive_from_gemini is still running, and a handler that has returned
\* from relaying has closed it.
C14_TeardownAfterBothRelays ==
    /\ (sendPc = "running" \/ recvPc = "running") => session # "closed"
    /\ session = "closed" => /\ sendPc = "done"
                             /\ recvPc \in {"ended", "send_failed"}
                             /\ sessPc = "closed"
    /\ (sessPc = "closed" /\ session # "none") => session = "closed"

\* the session was torn down after both relays had carried traffic and the
\* Outbound Relay had returned on the end of the upstream stream
C14_Witness ==
    /\ session = "closed"
    /\ recvPc = "ended"
    /\ toClient # <<>>
    /\ toUpstream # <<>>

\* an exception was raised inside one of the relays
RelayRaised ==
    \/ \E k \in 1..Len(clientMsgs) : clientMsgs[k].raised
    \/ recvPc \in {"ended", "send_failed"}

\* C15: no failure leaves gemini_session_handler as an exception.  A first
\* message that cannot be read or parsed, and a failed connect, end the
\* handler with nothing opened and no relay started; an exception inside a
\* relay stays inside the relay, the handler goes on and, when it ends, has
\* closed the upstream session.
C15_FailuresContained ==
    /\ sessPc \in {"handshake", "connecting", "relaying", "closed"}
    /\ sessionError # "none" =>
          /\ sessPc = "closed"
          /\ session = "none"
          /\ sendPc = "idle" /\ recvPc = "idle"
    /\ (sessPc # "handshake" /\ handshake = NoResult) =>
          sessionError = "recv"
    /\ (handshake # NoResult /\ ~(handshake.json /\ handshake.object)) =>
          sessionError \in {"json.loads", "get"}
    /\ (sessPc = "closed" /\ sessionError = "none") => session = "closed"
    /\ RelayRaised =>
          /\ sessionError = "none"
          /\ sessPc \in {"relaying", "closed"}

\* a session that saw an exception in each relay has ended in teardown
C15_Witness ==
    /\ sessPc = "closed"
    /\ session = "closed"
    /\ recvPc = "send_failed"
    /\ \E k \in 1..Len(clientMsgs) : clientMsgs[k].raised

\* C16: once the Outbound Relay has returned (the upstream stream ended or a
\* send to the client raised), the session eventually reaches Closed with
\* the Inbound Relay stopped, whether or not the client disconnects.
C16_Original_OutboundEndClosesSession ==
    (sessPc = "relaying" /\ recvPc \in {"ended", "send_failed"})
       ~> (sessPc = "closed" /\ sendPc = "done")

\* C17: when the client connection closes during a session, the Outbound
\* Relay eventually returns and the session eventually closes, whatever the
\* upstream stream does from then on.
C17_Original_ClientCloseClosesSession ==
    (sessPc = "relaying" /\ ~clientOpen)
       ~> (recvPc \in {"ended", "send_failed"} /\ sessPc = "closed")

\* a client message that is JSON without "realtime_input": what a
\* {"setup": ...} sent after the handshake is to send_to_gemini
IsLateSetup(m) == m.json /\ ~m.has_input

\* C18: the config given to the upstream connect is the literal one whatever
\* the first client message contained, nothing is given before the connect,
\* and a configuration message sent later puts nothing on the upstream
\* stream, raises nothing and leaves the config as it is.
C18_ConfigFixedByPolicy ==
    /\ session = "none" => upstreamConfig = NoResult
    /\ session # "none" => upstreamConfig = FixedConfig
    /\ \A k \in 1..Len(clientMsgs) :
          IsLateSetup(clientMsgs[k].message)
             => /\ ForwardedBy(k) = <<>>
                /\ ~clientMsgs[k].raised

\* the client asked for another configuration in its handshake, sent a
\* configuration message later, and had audio forwarded after it
C18_Witness ==
    /\ session = "connected"
    /\ handshake.has_setup
    /\ handshake.setup # FixedConfig
    /\ upstreamConfig = FixedConfig
    /\ Len(clientMsgs) >= 2
    /\ IsLateSetup(clientMsgs[1].message)
    /\ ForwardedBy(2) # <<>>

\* no container at all could be produced for turn t: convert_pcm_to_mp3
\* returned nothing and the fallback container cannot be built
NoContainer(t) ==
    /\ \E i \in 1..Len(ConvertCallsOfTurn(t)) :
          ConvertCallsOfTurn(t)[i].result = NoResult
    /\ ~FitsU32(AudioOfTurn(t))

\* C13: when a turn closes and no container at all can be produced for its
\* audio, only the audio is dropped: the turn has no audio message, its
\* turn_complete is sent, and the relay goes on.
C13_Original_OnlyAudioDropped ==
    \A k \in 1..Len(events) :
       (ClosesTurn(events[k]) /\ NoContainer(TurnOfEvent(k))
          /\ recvPc # "send_failed")
          => LET M == MsgsOfTurn(TurnOfEvent(k))
             IN  /\ Count(M, IsAudio) = 0
                 /\ M # <<>> /\ IsTurnComplete(M[Len(M)])
                 /\ recvPc \in {"running", "ended"}

\* an upstream response the relay does not recognise: no server_content, or
\* server_content with neither parts nor the turn_complete marker
Unrecognized(e) ==
    \/ ~e.server_content
    \/ e.parts = <<>> /\ ~e.turn_complete

\* C21: handling an unrecognised upstream response changes nothing of the
\* turn state (audio buffer, audio_start flag, accumulated text), sends
\* nothing to the client, and leaves receive_from_gemini running.
C21_UnrecognizedEventIsFrame ==
    [][(events' # events /\ Unrecognized(events'[Len(events')]))
          => /\ accumulated_audio_this_turn' = accumulated_audio_this_turn
             /\ audio_start_sent' = audio_start_sent
             /\ current_text_response' = current_text_response
             /\ toClient' = toClient
             /\ recvPc' = "running"]_vars

\* an unrecognised response arrived in the middle of a turn that had text
\* and audio, and left them as they were
C21_Witness ==
    /\ Len(events) = 2
    /\ Unrecognized(events[2])
    /\ accumulated_audio_this_turn # <<>>
    /\ audio_start_sent
    /\ current_text_response # <<>>
    /\ recvPc = "running"

\* a step of send_to_gemini: it reads a client message or returns
InboundStep ==
    \/ clientMsgs' # clientMsgs
    \/ sendPc = "running" /\ sendPc' = "done"
\* a step of receive_from_gemini: it takes an upstream response or returns
OutboundStep ==
    \/ events' # events
    \/ recvPc = "running" /\ recvPc' # "running"

\* C22: in every interleaving of a session, a step of the Inbound Relay
\* writes nothing to the client and leaves the turn state (buffer,
\* audio_start flag, text) and the Outbound Relay's position alone; a step
\* of the Outbound Relay sends nothing to upstream and consumes no client
\* message; no step is a step of both.
C22_RelaysDisjoint ==
    [][/\ InboundStep =>
             /\ toClient' = toClient
             /\ accumulated_audio_this_turn' = accumulated_audio_this_turn
             /\ audio_start_sent' = audio_start_sent
             /\ current_text_response' = current_text_response
             /\ events' = events /\ recvPc' = recvPc
       /\ OutboundStep =>
             /\ toUpstream' = toUpstream
             /\ clientMsgs' = clientMsgs /\ nextChunk' = nextChunk
             /\ sendPc' = sendPc]_vars

\* both relays have worked in one session while a turn was open, and the
\* Inbound Relay has returned
C22_Witness ==
    /\ sessPc = "relaying"
    /\ toUpstream # <<>>
    /\ toClient # <<>>
    /\ current_text_response # <<>>
    /\ sendPc = "done"
    /\ recvPc = "running"

\* C23: the Inbound Relay performs no audio conversion: while only
\* send_to_gemini runs, no codec function is called and no container file
\* is written; the packets sent to upstream are its only effect.
C23_Original_InboundNoConversion ==
    /\ codecCalls = <<>>
    /\ \A f \in FileNames : files[f] = NoResult

\* what this session's own calls of save_pcm_as_mp3 have left under a file
\* name: the result of the last one that wrote
IsSaveCall(c) == c.fn = "save_pcm_as_mp3"
OwnFile(f) ==
    LET wrote(c) == IsSaveCall(c) /\ c.rate = FileRate(f)
                       /\ c.result # NoResult
        W == SelectSeq(codecCalls, wrote)
    IN  IF W = <<>> THEN NoResult ELSE W[Len(W)].result

\* C24: sessions are independent: what a session finds under the file
\* names it writes is what the session itself wrote there, whatever other
\* sessions do.
C24_Original_SessionsIndependent ==
    \A f \in FileNames : files[f] = OwnFile(f)

\* the bytes a packet on the upstream stream carries
PacketBytes(p) ==
    IF IsAudioPacket(p) THEN p.audio.data ELSE p.media_chunks[1].data

\* the first message could not be read or parsed
HandshakeFailed == sessionError \in {"recv", "json.loads", "get"}

\* C25: the upstream session is opened and the relays are started only
\* after one client message has been read and parsed as the handshake;
\* nothing of that message is ever forwarded to upstream, also when it
\* carries realtime input; a session opens at most one upstream session
\* (once opened it is never opened again); and if the handshake cannot be
\* read or parsed the handler ends with no upstream session and no relay.
C25_OneHandshake ==
    /\ [](/\ (session # "none" \/ sendPc # "idle" \/ recvPc # "idle")
               => /\ handshake # NoResult
                  /\ handshake.json /\ handshake.object
          /\ (handshake # NoResult /\ handshake.has_input)
               => \A i \in 1..Len(toUpstream) :
                     PacketBytes(toUpstream[i]) # handshake.chunks[1].bytes
          /\ Len(toUpstream) =
                Len(SelectSeq(toUpstream, IsAudioPacket))
                + Len(SelectSeq(toUpstream, IsImagePacket))
          /\ (clientMsgs # <<>>) => clientMsgs[1].base = 0
          /\ HandshakeFailed
               => /\ sessPc = "closed" /\ session = "none"
                  /\ sendPc = "idle" /\ recvPc = "idle"
                  /\ toUpstream = <<>> /\ clientMsgs = <<>>)
    /\ [][/\ session # "none" => session' # "none"
          /\ session = "closed" => session' = "closed"
          /\ session' # session
               => (session' = "connected" => sessPc = "connecting")]_vars

\* the first message carried realtime input, the session went on, and a
\* later message had its audio forwarded
C25_Witness ==
    /\ handshake # NoResult
    /\ handshake.has_input
    /\ session = "closed"
    /\ Len(toUpstream) >= 1
    /\ Len(clientMsgs) >= 1

\* C26: every call of convert_pcm_to_mp3 returns to its caller; on the
\* empty buffer and on a buffer under 1000 bytes it returns None and the
\* encoder is not started; on every other input the result is None or the
\* base64 text of an MP3 of at least 500 bytes (so a non-empty text), and
\* it is None whenever the encoder fails or leaves fewer than 500 bytes.
C26_ConvertNeverRaises ==
    \A i \in 1..Len(codecCalls) :
        LET c == codecCalls[i]
        IN  /\ ~c.raised
            /\ (c.pcm = <<>> \/ BufLen(c.pcm) < CODEC_MIN_BYTES)
                 => c.result = NoResult /\ ~c.encoder_ran
            /\ \/ c.result = NoResult
               \/ /\ c.result = B64Encode(Mp3Of(c.pcm, c.rate))
                  /\ c.env.mp3_len >= MIN_MP3_BYTES
                  /\ c.encoder_ran
            /\ (c.env.conv_fails \/ c.env.mp3_len < MIN_MP3_BYTES)
                 => c.result = NoResult

\* one call on the empty buffer, and one on a buffer long enough for the
\* encoder to be started under pydub, where it failed
C26_Witness ==
    /\ Len(codecCalls) = 2
    /\ codecCalls[1].pcm = <<>>
    /\ codecCalls[1].result = NoResult
    /\ codecCalls[2].env.pydub /\ codecCalls[2].env.conv_fails
    /\ codecCalls[2].encoder_ran
    /\ codecCalls[2].result = NoResult

\* C27: a malformed client message is skipped as a whole: when a chunk of
\* a message has no mime type or no decodable data, nothing of that message
\* is on the upstream stream.
C27_Original_MalformedSkippedWhole ==
    \A k \in 1..Len(clientMsgs) :
        ~WellFormed(clientMsgs[k].message) => ForwardedBy(k) = <<>>

====
